---- MODULE Spec2Model ----
(***************************************************************************)
(* Store / scene synchronisation of the OpenLayers map component.          *)
(*                                                                         *)
(* The model follows "REQUIRED FILES for app integration/OpenLayersTest.tsx"*)
(* (the map component OpenLayersTest and the store MapDataProvider).       *)
(* The store is React state: a mutating call queues an updater, and the    *)
(* queue is applied at the next render, which also refreshes markersRef.   *)
(*                                                                         *)
(* Spec            store / scene synchronisation, camera at rest           *)
(* SpecOneInstance the same for a single component instance                *)
(* SpecCamera      overlapping navigation commands and animation frames    *)
(* SpecLifecycle   gestures and frames across unmount and re-mount         *)
(* SpecStore       the store's operations called by a consumer             *)
(* SpecSeed        a seed configuration that changes under a mounted map   *)
(* SpecSubmit      the coordinate input box of the host (App.tsx)          *)
(* SpecCreate      marker creation by click, navigation drop and addMarker *)
(* SpecHost        the host's listener and its 50 ms markerAdded timers    *)
(* SpecBatch       several store calls queued before one render            *)
(* SpecCallbacks   a host that replaces its callbacks under a mounted map  *)
(* SpecLog         the event log of the host (App.tsx)                     *)
(* SpecPlain       the map component that keeps no store (markersCountRef) *)
(***************************************************************************)
EXTENDS Integers, Sequences, FiniteSets, TLC

\* ------------------------------------------------------------------ bounds
MaxMarkers == 2        \* no marker is created once the store holds this many
                       \* (an add under an id of the store replaces a record)
MaxAnims == 2          \* no command is taken with this many animations in flight
MaxTimers == 2         \* no marker is created with this many timers not yet fired
MaxQueue == 3          \* no store call is made with this many updaters queued
MaxEvents == 12        \* no event is logged after this many log lines

\* ------------------------------------------------------- optional values
\* An optional value (undefined / null / absent prop) is a sequence of
\* length 0 or 1.
None == <<>>
Some(x) == <<x>>
IsSome(o) == Len(o) = 1
Get(o) == o[1]

\* ------------------------------------------------------------ coordinates
Lats == {33, 85}
Lons == {-84}
LonLats == {<<lon, lat>> : lon \in Lons, lat \in Lats}

DEFAULT_CENTER == <<-84, 33>>
DEFAULT_ZOOM == 12
GOTO_DEFAULT_ZOOM == 15

\* Web-Mercator northing in km of the latitudes of the model.
MercatorY(lat) == CASE lat = 33 -> 3895
                    [] lat = 85 -> 19972
                    [] OTHER -> lat * 111

\* ol/proj fromLonLat: degrees to projected kilometres.
fromLonLat(ll) == <<ll[1] * 111, MercatorY(ll[2])>>

Projected == {fromLonLat(ll) : ll \in LonLats}

\* ol/proj toLonLat: the inverse on the projected points of the model.
toLonLat(xy) == CHOOSE ll \in LonLats : fromLonLat(ll) = xy

\* ---------------------------------------------------------- grid reference
BandLetters == <<"C", "D", "E", "F", "G", "H", "J", "K", "L", "M",
                 "N", "P", "Q", "R", "S", "T", "U", "V", "W", "X", "X">>
MgrsBand == -80 .. 84

MgrsFails == [src |-> "throw"]

\* mgrs.forward([lon, lat], accuracy): a grid reference inside the latitude
\* band of the grid system, an exception outside it.
mgrsForward(ll, accuracy) ==
    IF ll[2] \in MgrsBand
    THEN [src |-> "forward",
          zone |-> ((ll[1] + 180) \div 6) + 1,
          band |-> BandLetters[((ll[2] + 80) \div 8) + 1],
          digits |-> accuracy,
          cell |-> ll]
    ELSE MgrsFails

\* A grid reference typed by the user and handed over by the host.
TypedMgrs == [src |-> "text", text |-> "16SEG1234567890"]

\* ------------------------------------------------------------------- store
\* What Date.now() and Math.random() can return.  Date.now() is the wall
\* clock: two calls in the same millisecond agree, and nothing orders it.
Timestamps == {0, 1}
RandSuffixes == {0}

\* generateId(prefix): `${prefix}-${Date.now()}-${Math.random()...}`
generateId(prefix, now, rnd) == <<prefix, now, rnd>>

IdsOf(seq) == {seq[i].id : i \in 1 .. Len(seq)}

HasId(seq, id) == \E i \in 1 .. Len(seq) : seq[i].id = id

\* A delete that also drops every record inserted after the deleted one.
Without_AndAfter(seq, id) ==
    IF HasId(seq, id)
    THEN SubSeq(seq, 1, (CHOOSE i \in 1 .. Len(seq) : seq[i].id = id) - 1)
    ELSE seq

\* Map.prototype.delete on a copy: the other entries keep their order.
RECURSIVE Without(_, _)
Without(seq, id) ==
    IF seq = <<>> THEN <<>>
    ELSE IF Head(seq).id = id THEN Without(Tail(seq), id)
    ELSE <<Head(seq)>> \o Without(Tail(seq), id)

\* Map.prototype.set: an existing key keeps its position, a new key is
\* appended.
MapSet(m, rec) ==
    IF HasId(m, rec.id)
    THEN [i \in 1 .. Len(m) |-> IF m[i].id = rec.id THEN rec ELSE m[i]]
    ELSE Append(m, rec)

\* A clear that leaves the oldest marker behind.
ApplyUpdater_PartialClear(m, u) ==
    CASE u.op = "add" -> MapSet(m, u.rec)
      [] u.op = "del" -> Without(m, u.id)
      [] u.op = "clear" -> IF m = <<>> THEN <<>> ELSE <<Head(m)>>

\* One state updater handed to setMarkers.
ApplyUpdater(m, u) ==
    CASE u.op = "add" -> MapSet(m, u.rec)
      [] u.op = "del" -> Without(m, u.id)
      [] u.op = "clear" -> <<>>

\* A queue of which only the last updater takes effect (updaters that close
\* over the rendered collection instead of taking the previous one).
ApplyAll_LastWins(m, q) ==
    IF q = <<>> THEN m ELSE ApplyUpdater(m, q[Len(q)])

\* React applies the queued updaters in the order of the setMarkers calls.
RECURSIVE ApplyAll(_, _)
ApplyAll(m, q) ==
    IF q = <<>> THEN m ELSE ApplyAll(ApplyUpdater(m, Head(q)), Tail(q))

VARIABLES
    markers,              \* MapDataProvider: committed markers (= markersRef.current)
    zones,                \* MapDataProvider: zones (= zonesRef.current)
    pending,              \* MapDataProvider: updaters queued by setMarkers
    phase,                \* "Uninitialized" | "Active" | "Disposed"
    crashed,              \* an effect threw: React unmounted the tree
    markersSource,        \* features of markersSourceRef.current
    zonesSource,          \* features of zonesSourceRef.current
    heatSource,           \* features of heatSourceRef.current
    visible,              \* getVisible() of the zones / markers / heat layers
    show,                 \* props showZones / showMarkers / showHeatIncidents
    requestClearMarkers,  \* prop
    goToRequest,          \* prop
    seedZones,            \* prop
    popup,                \* popup overlay: content and position
    view,                 \* camera: center (projected) and zoom
    anim,                 \* camera animations in flight, in start order
    info,                 \* host: last OLInfo received through onInfo
    markersCount,         \* host: last value received through onMarkersCount
    emitted,              \* MapEvents handed to onMapEvent by the last step
    listed,               \* a consumer: the array its last getAllMarkers() returned
    alerted,              \* host: the message the last submit put in an alert
    hostListens,          \* host: MapView.handleMapEvent is the onMapEvent prop
    timers,               \* host: markerIds of the 50 ms timers not yet fired
    notified,             \* host: what the last timer handed to onMarkerAdded
    callbacks,            \* props onMapEvent / onLastClick / onInfo: their generation
    captured,             \* the generation the handlers of the init effect closed over
    receiver,             \* the generation that received the last notification
    eventLog,             \* host (App.tsx): the lines of the event log
    markersCountRef,      \* the component without a store: markersCountRef.current
    last                  \* the last step and its inputs

vars == <<markers, zones, pending, phase, crashed, markersSource, zonesSource,
          heatSource, visible, show, requestClearMarkers, goToRequest,
          seedZones, popup, view, anim, info, markersCount,
          emitted, listed, alerted, hostListens, timers, notified,
          callbacks, captured, receiver, eventLog, markersCountRef, last>>

storeVars == <<markers, pending>>
sceneVars == <<markersSource, zonesSource, heatSource, visible, popup>>
cameraVars == <<view, anim, info>>
propVars == <<show, requestClearMarkers, goToRequest, seedZones>>

\* Map.prototype.get
MapGet(m, id) ==
    IF HasId(m, id)
    THEN Some(m[CHOOSE i \in 1 .. Len(m) : m[i].id = id])
    ELSE None

\* getMarker(id): markersRef.current.get(id)
getMarker(id) == MapGet(markers, id)

\* getAllMarkers(): Array.from(markersRef.current.values())
getAllMarkers == markers

\* getZone(id): zonesRef.current.get(id)
getZone(id) == MapGet(zones, id)

\* getAllZones(): Array.from(zonesRef.current.values())
getAllZones == zones

\* The collection the queued updaters produce at the next render.
Store == ApplyAll(markers, pending)


\* ------------------------------------------------------------ scene graph
\* forEachFeatureAtPixel found no feature.
NoHit == [type |-> "none", id |-> <<"none", 0, 0>>]

PopupClosed == [kind |-> "none"]

\* VectorSource.addFeature: a feature whose id is already indexed is dropped.
addFeature(src, f) == IF HasId(src, f.id) THEN src ELSE Append(src, f)

RECURSIVE addFeatures(_, _)
addFeatures(src, fs) ==
    IF fs = <<>> THEN src ELSE addFeatures(addFeature(src, Head(fs)), Tail(fs))

\* A removal that leaves the feature in the source.
removeFeature_Keeps(src, f) == src

\* VectorSource.removeFeature
removeFeature(src, f) == Without(src, f.id)

\* The zones seeded when the seedZones prop is absent, and an alternative
\* configuration a host may pass.
\* A zone polygon is placed by a point it covers.
DefaultZones == <<[name |-> "Zone A", riskScore |-> 82, at |-> <<-84, 33>>]>>
AltZones == <<[name |-> "Zone B", riskScore |-> 40, at |-> <<-84, 33>>]>>
SeedZoneConfigs == {None, Some(AltZones)}

DefaultHeatPoints ==
    <<[name |-> "Incident Cluster 1", weight |-> 9, lon |-> -84, lat |-> 33]>>

ZoneFeatures(cfg) ==
    LET zs == IF IsSome(cfg) THEN Get(cfg) ELSE DefaultZones
    IN  [i \in 1 .. Len(zs) |->
            [id |-> <<"zone", i - 1, 0>>, type |-> "zone",
             name |-> zs[i].name, riskScore |-> zs[i].riskScore,
             lonLat |-> zs[i].at]]

\* makeHeatPoint
makeHeatPoint(i, pt) ==
    [id |-> <<"heat", i, 0>>, type |-> "heat", name |-> pt.name,
     weight |-> pt.weight, lonLat |-> <<pt.lon, pt.lat>>]

HeatFeatures ==
    [i \in 1 .. Len(DefaultHeatPoints) |->
        makeHeatPoint(i - 1, DefaultHeatPoints[i])]

FeaturesAt(src, xy) ==
    {src[i] : i \in {j \in 1 .. Len(src) : fromLonLat(src[j].lonLat) = xy}}

\* map.forEachFeatureAtPixel(evt.pixel, f => f): a feature of a visible
\* layer drawn at the pixel, or nothing.  A projected point of the model
\* stands for the pixels around it, so a click there may hit any of the
\* features placed there, or none.
HitCandidates(xy) ==
    {NoHit}
    \cup (IF visible.markers THEN FeaturesAt(markersSource, xy) ELSE {})
    \cup (IF visible.zones THEN FeaturesAt(zonesSource, xy) ELSE {})
    \cup (IF visible.heat THEN FeaturesAt(heatSource, xy) ELSE {})

\* ------------------------------------------------------------------ events
MarkerAdded(id, latLon) ==
    [type |-> "markerAdded", id |-> id, coordinates |-> latLon]
MarkerRemoved(id, latLon) ==
    [type |-> "markerRemoved", id |-> id, coordinates |-> latLon]
ZoneClicked(id, latLon) ==
    [type |-> "zoneClicked", id |-> id, coordinates |-> latLon]
FeatureClicked(kind, id, latLon) ==
    [type |-> "featureClicked", id |-> id, coordinates |-> latLon,
     featureType |-> kind]

CountOf(evs, t) == Cardinality({i \in 1 .. Len(evs) : evs[i].type = t})

\* A listener that receives every event twice.
onMapEvent_Twice(evs) == evs \o evs

\* The host's onMapEvent listener (MapView.handleMapEvent): what the
\* external listener receives when the map component emits evs, each event
\* handed over by one call that forwards it once.
onMapEvent(evs) == [i \in 1 .. Len(evs) |-> evs[i]]

\* ------------------------------------------------------------ store calls
\* addMarker(lat, lon, mgrsText): the record and the updater it queues.
MarkerData(id, lat, lon, mgrsText, ts) ==
    [id |-> id, lat |-> lat, lon |-> lon, mgrs |-> mgrsText, timestamp |-> ts]

addMarker(q, id, lat, lon, mgrsText, ts) ==
    Append(q, [op |-> "add", rec |-> MarkerData(id, lat, lon, mgrsText, ts)])

\* A removeMarker that never reaches the store.
removeMarker_Dropped(q, id) == q

\* removeMarker(id)
removeMarker(q, id) == Append(q, [op |-> "del", id |-> id])

\* clearMarkers()
clearMarkers(q) == Append(q, [op |-> "clear"])

\* The marker feature built for the marker layer.
MarkerFeature(id, lonLat, mgrsText) ==
    [id |-> id, type |-> "marker", name |-> "Marker", lonLat |-> lonLat,
     mgrs |-> mgrsText]

\* A report that gives the centre as (lon, lat).
updateInfo_LonLat(v) ==
    [zoom |-> v.zoom, centerLatLon |-> toLonLat(v.center)]

\* updateInfo: zoom and centre (as lat, lon) of the live camera.
updateInfo(v) ==
    LET c == toLonLat(v.center)
    IN  [zoom |-> v.zoom, centerLatLon |-> <<c[2], c[1]>>]

InitialView == [center |-> fromLonLat(DEFAULT_CENTER), zoom |-> DEFAULT_ZOOM]

InitComponent ==
    /\ markers = <<>>
    /\ pending = <<>>
    /\ phase = "Uninitialized"
    /\ crashed = FALSE
    /\ markersSource = <<>>
    /\ zonesSource = <<>>
    /\ heatSource = <<>>
    /\ visible = [zones |-> TRUE, markers |-> TRUE, heat |-> TRUE]
    /\ show = [zones |-> TRUE, markers |-> TRUE, heat |-> TRUE]
    /\ requestClearMarkers \in {None, Some(0)}
    /\ goToRequest = None
    /\ seedZones = None
    /\ popup = PopupClosed
    /\ view = InitialView
    /\ anim = <<>>
    /\ info = [zoom |-> 12, centerLatLon |-> <<33, -84>>]
    /\ markersCount = 0
    /\ emitted = <<>>
    /\ listed = <<>>
    /\ zones = <<>>
    /\ alerted = None
    /\ timers = <<>>
    /\ notified = None
    /\ callbacks = 0
    /\ captured = 0
    /\ receiver = None
    /\ eventLog = <<>>
    /\ markersCountRef = 0
    /\ last = [op |-> "init", hit |-> NoHit, xy |-> None]

\* The component without a listener for its events, and under a MapView
\* that passes handleMapEvent as onMapEvent.
Init == InitComponent /\ hostListens = FALSE

InitHosted == InitComponent /\ hostListens = TRUE

\* MapView.handleMapEvent: each markerAdded event starts a 50 ms timer that
\* holds the event's markerId.
handleMapEvent(evs) ==
    LET added == SelectSeq(evs, LAMBDA e : e.type = "markerAdded")
    IN  [i \in 1 .. Len(added) |-> added[i].id]

\* The initialisation effect runs: clickHandler, contextMenuHandler and
\* updateInfo close over the callbacks of this render, and updateInfo() is
\* called once.
Captures ==
    /\ captured' = callbacks
    /\ receiver' = Some(callbacks)

\* A handler of the initialisation effect calls the callback it closed over.
Delivers(notifies) ==
    /\ receiver' = IF notifies THEN Some(captured) ELSE receiver
    /\ UNCHANGED captured

\* The goToRequest effect belongs to the render that changed goToRequest: it
\* calls the onMapEvent of that render.
EffectDelivers ==
    /\ receiver' = IF emitted' # <<>> THEN Some(callbacks) ELSE receiver
    /\ UNCHANGED captured

\* The events a step emitted reach the listener, when there is one.
HostListens ==
    IF hostListens
    THEN /\ timers' = timers \o handleMapEvent(emitted')
         /\ Len(timers') <= MaxTimers
    ELSE UNCHANGED timers

\* A step of the host or of the user runs when React has flushed the
\* updates queued by the previous one.
Idle == ~crashed /\ pending = <<>>

\* Handlers and effects that outlive the component.
Ready_Undetached == ~crashed /\ pending = <<>>

\* Gestures reach the handlers of a mounted component, and the effects that
\* carry the host's commands run in a mounted component.
Ready == Idle /\ phase = "Active"

\* A markers-count effect that reports only a growing collection.
markersCountEffect_OnGrowth(before, after) ==
    IF phase = "Active" /\ Len(after) > Len(before)
    THEN Len(after)
    ELSE markersCount

\* The markers-count effect after a render: onMarkersCount?.(markers.size),
\* run by a mounted component when markers.size changed (its deps).
markersCountEffect(before, after) ==
    IF phase = "Active" /\ Len(after) # Len(before)
    THEN Len(after)
    ELSE markersCount

\* MapDataProvider re-renders: the queued updaters are applied in order,
\* markersRef.current follows, and the markers-count effect of a mounted
\* map component runs when markers.size changed.
Render ==
    /\ ~crashed
    /\ pending # <<>>
    /\ markers' = ApplyAll(markers, pending)
    /\ pending' = <<>>
    /\ markersCount' = markersCountEffect(markers, markers')
    /\ UNCHANGED <<phase, crashed, sceneVars, propVars, cameraVars, emitted,
                   listed, zones, alerted, hostListens, notified, callbacks, eventLog, markersCountRef, last>>
    /\ UNCHANGED timers
    /\ UNCHANGED <<captured, receiver>>


\* ------------------------------------------------------------ gestures
\* Guards that take a zone for a marker, never recognise a zone, and take
\* every layer for visible.
isMarkerFeature_OrZone(props) == props.type \in {"marker", "zone"}
isZoneFeature_Never(props) == FALSE
getVisible_Always(vis, layer) == TRUE

\* Type guards on feature properties.
isMarkerFeature(props) == props.type = "marker"
isZoneFeature(props) == props.type = "zone"

\* markersLayerRef.current.getVisible()
getVisible(vis, layer) == vis[layer]

\* clickHandler (singleclick), with evt.coordinate = xy and clickedFeature =
\* the feature the hit test returned (NoHit when it returned none).
clickHandler(xy, clickedFeature) ==
    LET lonLat == toLonLat(xy)
        latLon == <<lonLat[2], lonLat[1]>>
        props == clickedFeature
        hitAny == clickedFeature # NoHit
        clicked == IF hitAny
                   THEN <<FeatureClicked(props.type, props.id, latLon)>>
                   ELSE <<>>
        markerData == getMarker(props.id)
        markerMgrs == mgrsForward(lonLat, 5)
    IN
    /\ UNCHANGED <<listed, zones, alerted, hostListens, notified, callbacks, eventLog, markersCountRef>>
    /\ last' = [op |-> "click", hit |-> clickedFeature, xy |-> Some(xy)]
    /\ UNCHANGED <<markers, phase, crashed, zonesSource, heatSource, visible,
                   propVars, cameraVars, markersCount>>
    /\ IF hitAny /\ isMarkerFeature(props)
       THEN \* popup from the store record, or from the feature as fallback
            /\ popup' = [kind |-> "marker", id |-> props.id, at |-> xy,
                         fromStore |-> IsSome(markerData)]
            /\ emitted' = onMapEvent(clicked)
            /\ UNCHANGED <<pending, markersSource>>
       ELSE IF hitAny /\ isZoneFeature(props)
       THEN /\ popup' = [kind |-> "zone", id |-> props.id, at |-> xy]
            /\ emitted' = onMapEvent(clicked
                                     \o <<ZoneClicked(props.id, latLon)>>)
            /\ UNCHANGED <<pending, markersSource>>
       ELSE /\ popup' = IF hitAny THEN popup ELSE PopupClosed
            /\ IF ~getVisible(visible, "markers") \/ markerMgrs = MgrsFails
               THEN \* layer hidden, or mgrs.forward threw
                    /\ emitted' = onMapEvent(clicked)
                    /\ UNCHANGED <<pending, markersSource>>
               ELSE \E now \in Timestamps, rnd \in RandSuffixes :
                        LET markerId == generateId("marker", now, rnd)
                        IN  /\ Len(Store) < MaxMarkers \/ HasId(Store, markerId)
                            /\ pending' = addMarker(pending, markerId,
                                                    latLon[1], latLon[2],
                                                    markerMgrs, now)
                            /\ markersSource' =
                                  addFeature(markersSource,
                                             MarkerFeature(markerId, lonLat,
                                                           markerMgrs))
                            /\ emitted' =
                                  onMapEvent(clicked
                                             \o <<MarkerAdded(markerId, latLon)>>)

Click ==
    /\ Ready
    /\ \E xy \in Projected :
         \E hit \in HitCandidates(xy) : clickHandler(xy, hit)
    /\ HostListens
    /\ Delivers(TRUE)

\* contextMenuHandler (right click)
contextMenuHandler(xy, clickedFeature) ==
    LET props == clickedFeature
        markerId == props.id
        latLon == <<props.lonLat[2], props.lonLat[1]>>
    IN
    /\ UNCHANGED <<listed, zones, alerted, hostListens, notified, callbacks, eventLog, markersCountRef>>
    /\ last' = [op |-> "contextmenu", hit |-> clickedFeature, xy |-> Some(xy)]
    /\ UNCHANGED <<markers, phase, crashed, zonesSource, heatSource,
                   visible, propVars, cameraVars, markersCount>>
    /\ IF \/ ~getVisible(visible, "markers")
          \/ clickedFeature = NoHit
          \/ ~isMarkerFeature(props)
       THEN /\ emitted' = <<>>
            /\ UNCHANGED <<pending, markersSource, popup>>
       ELSE /\ pending' = removeMarker(pending, markerId)
            /\ markersSource' = removeFeature(markersSource, clickedFeature)
            /\ popup' = PopupClosed
            /\ emitted' = onMapEvent(<<MarkerRemoved(markerId, latLon)>>)

ContextMenu ==
    /\ Ready
    /\ \E xy \in Projected :
         \E hit \in HitCandidates(xy) : contextMenuHandler(xy, hit)
    /\ HostListens
    /\ Delivers(emitted' # <<>>)

\* ------------------------------------------------------- host commands
Layers == {"zones", "markers", "heat"}

\* A setVisible that shows and hides the heat layer with the zones layer.
setVisible_WithHeat(vis, layer, b) ==
    [l \in Layers |->
        IF l = layer \/ (layer = "zones" /\ l = "heat") THEN b ELSE vis[l]]

\* <layer>LayerRef.current.setVisible(b)
setVisible(vis, layer, b) == [vis EXCEPT ![layer] = b]

\* The host changes showZones / showMarkers / showHeatIncidents; the
\* visibility effect of a mounted component applies it to the layer.
SetVisibility ==
    /\ Ready
    /\ \E layer \in Layers, b \in BOOLEAN :
        /\ show' = [show EXCEPT ![layer] = b]
        /\ visible' = setVisible(visible, layer, b)
        /\ UNCHANGED <<listed, zones, alerted, hostListens, notified, callbacks, eventLog, markersCountRef>>
        /\ last' = [op |-> "setVisible", hit |-> NoHit, xy |-> None]
    /\ emitted' = <<>>
    /\ UNCHANGED <<storeVars, phase, crashed, markersSource,
                   zonesSource, heatSource, popup, requestClearMarkers,
                   goToRequest, seedZones, cameraVars, markersCount>>
    /\ HostListens
    /\ UNCHANGED <<captured, receiver>>

ClearTokens == {None, Some(0), Some(1)}

\* A clear-markers effect that leaves the popup overlay where it is.
clearEffect_KeepsPopup(token, src, q, pop) ==
    IF token = None
    THEN [src |-> src, q |-> q, popup |-> pop]
    ELSE [src |-> <<>>, q |-> clearMarkers(q), popup |-> pop]

\* The clear-markers effect body.
clearEffect(token, src, q, pop) ==
    IF token = None
    THEN [src |-> src, q |-> q, popup |-> pop]
    ELSE [src |-> <<>>, q |-> clearMarkers(q), popup |-> PopupClosed]

\* The host changes requestClearMarkers; the clear-markers effect of a
\* mounted component runs.
RequestClear ==
    /\ Ready
    /\ \E token \in ClearTokens :
        /\ token # requestClearMarkers
        /\ requestClearMarkers' = token
        /\ LET res == clearEffect(token, markersSource, pending, popup)
           IN  /\ markersSource' = res.src
               /\ pending' = res.q
               /\ popup' = res.popup
    /\ UNCHANGED <<listed, zones, alerted, hostListens, notified, callbacks, eventLog, markersCountRef>>
    /\ last' = [op |-> "clear", hit |-> NoHit, xy |-> None]
    /\ emitted' = <<>>
    /\ UNCHANGED <<markers, phase, crashed, zonesSource, heatSource,
                   visible, show, goToRequest, seedZones, cameraVars, markersCount>>
    /\ HostListens
    /\ UNCHANGED <<captured, receiver>>

GoToRequest(lat, lon, zoom, dropMarker, mgrsText) ==
    [lat |-> lat, lon |-> lon, zoom |-> zoom, dropMarker |-> dropMarker,
     mgrs |-> mgrsText]

\* The navigation commands of the model: with and without a marker drop,
\* with and without a zoom and a grid reference, inside and outside the
\* latitude band of the grid system.
GoToRequests ==
    {GoToRequest(33, -84, None, TRUE, None),
     GoToRequest(85, -84, Some(10), FALSE, None),
     GoToRequest(85, -84, Some(10), TRUE, None),
     GoToRequest(33, -84, None, TRUE, Some(TypedMgrs))}

\* A goToRequest effect that puts the feature on the layer before it has
\* the grid reference.
goToEffect_FeatureFirst(r, src, q, vis, now, rnd) ==
    LET lonLat == <<r.lon, r.lat>>
        zoom == IF IsSome(r.zoom) THEN Get(r.zoom) ELSE GOTO_DEFAULT_ZOOM
        coord == fromLonLat(lonLat)
        target == <<[center |-> coord, zoom |-> zoom]>>
        markerMgrs == IF IsSome(r.mgrs) THEN Get(r.mgrs)
                      ELSE mgrsForward(lonLat, 5)
        markerId == generateId("marker", now, rnd)
        withFeature == addFeature(src, MarkerFeature(markerId, lonLat,
                                                     markerMgrs))
    IN  IF ~r.dropMarker \/ ~vis.markers
        THEN [anim |-> target, src |-> src, q |-> q, ev |-> <<>>,
              threw |-> FALSE, drop |-> FALSE]
        ELSE IF markerMgrs = MgrsFails
        THEN [anim |-> target, src |-> withFeature, q |-> q, ev |-> <<>>,
              threw |-> TRUE, drop |-> FALSE]
        ELSE [anim |-> target,
              src |-> withFeature,
              q |-> addMarker(q, markerId, r.lat, r.lon, markerMgrs, now),
              ev |-> <<MarkerAdded(markerId, <<r.lat, r.lon>>)>>,
              threw |-> FALSE, drop |-> TRUE]

\* The body of the goToRequest effect once the request and the map exist.
goToEffect(r, src, q, vis, now, rnd) ==
    LET lonLat == <<r.lon, r.lat>>
        zoom == IF IsSome(r.zoom) THEN Get(r.zoom) ELSE GOTO_DEFAULT_ZOOM
        coord == fromLonLat(lonLat)
        target == <<[center |-> coord, zoom |-> zoom]>>
        markerMgrs == IF IsSome(r.mgrs) THEN Get(r.mgrs)
                      ELSE mgrsForward(lonLat, 5)
        markerId == generateId("marker", now, rnd)
    IN  IF ~r.dropMarker \/ ~vis.markers
        THEN [anim |-> target, src |-> src, q |-> q, ev |-> <<>>,
              threw |-> FALSE, drop |-> FALSE]
        ELSE IF markerMgrs = MgrsFails
        THEN [anim |-> target, src |-> src, q |-> q, ev |-> <<>>,
              threw |-> TRUE, drop |-> FALSE]
        ELSE [anim |-> target,
              src |-> addFeature(src, MarkerFeature(markerId, lonLat, markerMgrs)),
              q |-> addMarker(q, markerId, r.lat, r.lon, markerMgrs, now),
              ev |-> <<MarkerAdded(markerId, <<r.lat, r.lon>>)>>,
              threw |-> FALSE, drop |-> TRUE]

\* The host hands over a new goToRequest object (or null); the goToRequest
\* effect of a mounted component runs.
SetGoTo ==
    /\ Ready
    /\ \E req \in {None} \cup {Some(r) : r \in GoToRequests},
          now \in Timestamps, rnd \in RandSuffixes :
        /\ goToRequest' = req
        /\ UNCHANGED <<listed, zones, alerted, hostListens, notified, callbacks, eventLog, markersCountRef>>
        /\ last' = [op |-> "goTo", hit |-> NoHit, xy |-> None]
        /\ IF req = None
           THEN /\ now = 0 /\ rnd = 0
                /\ emitted' = <<>>
                /\ UNCHANGED <<pending, phase, crashed, markersSource,
                               anim>>
           ELSE LET res == goToEffect(Get(req), markersSource, pending,
                                      visible, now, rnd)
                IN  /\ Len(anim) < MaxAnims
                    /\ res.drop => Len(ApplyAll(markers, res.q)) <= MaxMarkers
                    /\ ~res.drop => (now = 0 /\ rnd = 0)
                    /\ emitted' = onMapEvent(res.ev)
                    /\ markersSource' = res.src
                    /\ anim' = anim \o res.anim
                    /\ IF res.threw
                       THEN \* the effect threw: React unmounts the tree
                            /\ crashed' = TRUE
                            /\ phase' = "Disposed"
                            /\ pending' = <<>>
                       ELSE /\ pending' = res.q
                            /\ UNCHANGED <<crashed, phase>>
    /\ UNCHANGED <<markers, zonesSource, heatSource, visible, popup, show,
                   requestClearMarkers, seedZones, view, info, markersCount>>
    /\ HostListens
    /\ EffectDelivers

\* view.animate does not cancel the animations in flight: each call adds a
\* series, every frame applies the series from the latest to the earliest,
\* and the series end in start order (they last ANIMATION_DURATION each).
\* The earliest series ends: the camera is at its target.  When it was the
\* only one the map stops moving: moveend fires and updateInfo reports the
\* camera.
AnimationEnd ==
    /\ Ready
    /\ anim # <<>>
    /\ view' = Head(anim)
    /\ anim' = Tail(anim)
    /\ info' = IF anim' = <<>> THEN updateInfo(view') ELSE info
    /\ UNCHANGED <<listed, zones, alerted, hostListens, notified, callbacks, eventLog, markersCountRef>>
    /\ last' = [op |-> IF anim' = <<>> THEN "moveend" ELSE "frame",
                hit |-> NoHit, xy |-> None]
    /\ emitted' = <<>>
    /\ UNCHANGED <<storeVars, phase, crashed, sceneVars, propVars, markersCount>>
    /\ HostListens
    /\ Delivers(last'.op = "moveend")


\* --------------------------------------------------- coordinate input
\* One token of the input box as Number() reads it: a finite number, or NaN.
Num(v) == [finite |-> TRUE, val |-> v]
NaN == [finite |-> FALSE, val |-> 0]

Abs(x) == IF x < 0 THEN -x ELSE x

\* A text of the input box: the trimmed text, whether it holds a letter, the
\* point mgrs.toPoint returns for it (None: it throws), and the tokens that
\* splitting at blanks and commas leaves.
CoordText(trimmed, letters, point, parts) ==
    [trimmed |-> trimmed, letters |-> letters, point |-> point,
     parts |-> parts]

CoordTexts ==
    {CoordText("", FALSE, None, <<>>),
     CoordText(",", FALSE, None, <<>>),
     CoordText("33", FALSE, None, <<Num(33)>>),
     CoordText("33, -84", FALSE, None, <<Num(33), Num(-84)>>),
     CoordText("85, -84", FALSE, None, <<Num(85), Num(-84)>>),
     CoordText("91, -84", FALSE, None, <<Num(91), Num(-84)>>),
     CoordText("33, -181", FALSE, None, <<Num(33), Num(-181)>>),
     CoordText("33, --84", FALSE, None, <<Num(33), NaN>>),
     CoordText("16SEG1234567890", TRUE, Some(<<-84, 33>>), <<>>),
     CoordText("hello", TRUE, None, <<>>)}

\* mgrs.toPoint(text): a point, or an exception.
mgrsToPoint(input) ==
    IF IsSome(input.point) THEN Get(input.point) ELSE MgrsFails

Parsed(lat, lon, mgrsText) ==
    [ok |-> TRUE, lat |-> lat, lon |-> lon, mgrsText |-> mgrsText,
     message |-> ""]

Thrown(message) ==
    [ok |-> FALSE, lat |-> 0, lon |-> 0, mgrsText |-> None,
     message |-> message]

\* parseCoordinateInput(input)
parseCoordinateInput(input) ==
    IF input.trimmed = "" THEN Thrown("Empty input")
    ELSE IF input.letters
    THEN IF mgrsToPoint(input) = MgrsFails
         THEN Thrown("mgrs.toPoint")
         ELSE Parsed(mgrsToPoint(input)[2], mgrsToPoint(input)[1],
                     Some([src |-> "text", text |-> input.trimmed]))
    ELSE IF Len(input.parts) < 2 THEN Thrown("Need two numbers")
    ELSE LET lat == input.parts[1]
             lon == input.parts[2]
         IN  IF ~lat.finite \/ ~lon.finite THEN Thrown("Invalid numbers")
             ELSE IF Abs(lat.val) > 90 \/ Abs(lon.val) > 180
             THEN Thrown("Coordinates out of range")
             ELSE Parsed(lat.val, lon.val, None)

\* A submit handler that swallows a failure without telling the user.
handleSubmit_Silent(coordText) ==
    LET p == parseCoordinateInput(coordText)
        computedMgrs == IF ~p.ok THEN MgrsFails
                        ELSE IF IsSome(p.mgrsText) THEN Get(p.mgrsText)
                        ELSE mgrsForward(<<p.lon, p.lat>>, 5)
    IN  IF computedMgrs = MgrsFails
        THEN [request |-> None, alert |-> None]
        ELSE [request |-> Some(GoToRequest(p.lat, p.lon, Some(15), TRUE,
                                           Some(computedMgrs))),
              alert |-> None]

\* MapView.handleSubmit: the command it hands to setGoToRequest, or the
\* message of the alert in its catch block.
handleSubmit(coordText) ==
    LET p == parseCoordinateInput(coordText)
        computedMgrs == IF ~p.ok THEN MgrsFails
                        ELSE IF IsSome(p.mgrsText) THEN Get(p.mgrsText)
                        ELSE mgrsForward(<<p.lon, p.lat>>, 5)
    IN  IF ~p.ok
        THEN [request |-> None, alert |-> Some(p.message)]
        ELSE IF computedMgrs = MgrsFails
        THEN [request |-> None, alert |-> Some("mgrs.forward")]
        ELSE [request |-> Some(GoToRequest(p.lat, p.lon, Some(15), TRUE,
                                           Some(computedMgrs))),
              alert |-> None]

\* The user submits the input box: handleSubmit runs, and the goToRequest
\* effect of the mounted component runs on the command it issued.
Submit ==
    /\ Ready
    /\ \E coordText \in CoordTexts, now \in Timestamps, rnd \in RandSuffixes :
        LET h == handleSubmit(coordText)
        IN  /\ alerted' = h.alert
            /\ UNCHANGED <<listed, zones, hostListens, notified, callbacks, eventLog, markersCountRef>>
            /\ last' = [op |-> "submit", hit |-> NoHit, xy |-> None,
                        text |-> coordText]
            /\ IF h.request = None
               THEN /\ now = 0 /\ rnd = 0
                    /\ emitted' = <<>>
                    /\ UNCHANGED <<goToRequest, pending, phase, crashed,
                                   markersSource, anim>>
               ELSE LET res == goToEffect(Get(h.request), markersSource,
                                          pending, visible, now, rnd)
                    IN  /\ goToRequest' = h.request
                        /\ Len(anim) < MaxAnims
                        /\ res.drop =>
                               Len(ApplyAll(markers, res.q)) <= MaxMarkers
                        /\ ~res.drop => (now = 0 /\ rnd = 0)
                        /\ emitted' = onMapEvent(res.ev)
                        /\ markersSource' = res.src
                        /\ anim' = anim \o res.anim
                        /\ IF res.threw
                           THEN /\ crashed' = TRUE
                                /\ phase' = "Disposed"
                                /\ pending' = <<>>
                           ELSE /\ pending' = res.q
                                /\ UNCHANGED <<crashed, phase>>
    /\ UNCHANGED <<markers, zonesSource, heatSource, visible, popup, show,
                   requestClearMarkers, seedZones, view, info, markersCount>>
    /\ HostListens
    /\ EffectDelivers


\* --------------------------------------------------------------- lifecycle
\* The map-initialisation effect seeds the zone and heat sources.
seedZoneSource(src, cfg) == addFeatures(src, ZoneFeatures(cfg))
seedHeatSource(src) == addFeatures(src, HeatFeatures)

NoGoTo(src, q) ==
    [anim |-> <<>>, src |-> src, q |-> q, ev |-> <<>>, threw |-> FALSE,
     drop |-> FALSE]

\* A fresh component instance is mounted: new sources and layers, then the
\* effects in source order: initialisation, markers count, the three
\* visibility effects, clear markers, goToRequest.
Mount ==
    /\ Idle
    /\ phase \in {"Uninitialized", "Disposed"}
    /\ \E now \in Timestamps, rnd \in RandSuffixes :
        LET clr == clearEffect(requestClearMarkers, <<>>, <<>>, PopupClosed)
            go == IF goToRequest = None
                  THEN NoGoTo(clr.src, clr.q)
                  ELSE goToEffect(Get(goToRequest), clr.src, clr.q, show,
                                  now, rnd)
        IN  /\ go.drop => Len(ApplyAll(markers, go.q)) <= MaxMarkers
            /\ ~go.drop => (now = 0 /\ rnd = 0)
            /\ zonesSource' = seedZoneSource(<<>>, seedZones)
            /\ heatSource' = seedHeatSource(<<>>)
            /\ view' = InitialView
            /\ info' = updateInfo(InitialView)
            /\ markersCount' = Len(markers)
            /\ visible' = show
            /\ popup' = clr.popup
            /\ markersSource' = go.src
            /\ emitted' = onMapEvent(go.ev)
            /\ anim' = go.anim
            /\ IF go.threw
               THEN /\ crashed' = TRUE
                    /\ phase' = "Disposed"
                    /\ pending' = <<>>
               ELSE /\ crashed' = FALSE
                    /\ phase' = "Active"
                    /\ pending' = go.q
    /\ UNCHANGED <<listed, zones, alerted, hostListens, notified, callbacks, eventLog, markersCountRef>>
    /\ last' = [op |-> "mount", hit |-> NoHit, xy |-> None]
    /\ UNCHANGED <<markers, propVars>>
    /\ HostListens
    /\ Captures

\* The component is unmounted: the cleanup of the initialisation effect
\* detaches the handlers and drops the map and popup references.
Unmount ==
    /\ Ready
    /\ phase' = "Disposed"
    /\ popup' = PopupClosed
    /\ UNCHANGED <<listed, zones, alerted, hostListens, notified, callbacks, eventLog, markersCountRef>>
    /\ last' = [op |-> "unmount", hit |-> NoHit, xy |-> None]
    /\ emitted' = <<>>
    /\ UNCHANGED <<storeVars, crashed, markersSource, zonesSource,
                   heatSource, visible, propVars, cameraVars, markersCount>>
    /\ HostListens
    /\ UNCHANGED <<captured, receiver>>

\* The host passes another seedZones array: the initialisation effect of a
\* mounted component is cleaned up and runs again on the same sources and
\* layers (the other effects do not re-run).
ReSeed ==
    /\ Ready
    /\ \E cfg \in SeedZoneConfigs :
        /\ cfg # seedZones
        /\ seedZones' = cfg
        /\ zonesSource' = seedZoneSource(zonesSource, cfg)
        /\ heatSource' = seedHeatSource(heatSource)
        /\ view' = InitialView
        /\ anim' = <<>>
        /\ info' = updateInfo(InitialView)
        /\ popup' = PopupClosed
    /\ UNCHANGED <<listed, zones, alerted, hostListens, notified, callbacks, eventLog, markersCountRef>>
    /\ last' = [op |-> "reseed", hit |-> NoHit, xy |-> None]
    /\ emitted' = <<>>
    /\ UNCHANGED <<storeVars, phase, crashed, markersSource, visible,
                   show, requestClearMarkers, goToRequest, markersCount>>
    /\ HostListens
    /\ Captures

\* A navigation command handed over with the camera at rest.
SetGoToAtRest == anim = <<>> /\ SetGoTo

\* ------------------------------------------------- consumers of the store
\* The context value hands addMarker, removeMarker and clearMarkers to every
\* component under the provider.
MarkerIds == {generateId("marker", now, rnd) :
                 now \in Timestamps, rnd \in RandSuffixes}

Arg(id) == [type |-> "arg", id |-> id]

StoreFrame ==
    UNCHANGED <<markers, phase, crashed, sceneVars, propVars, cameraVars,
                markersCount, emitted>>

\* addMarker(lat, lon, mgrsText) called by a consumer; mgrs.forward throws
\* before setMarkers when no text is given and the latitude has no band.
StoreAddMarker ==
    /\ Idle
    /\ \E ll \in LonLats, mgrsText \in {None, Some(TypedMgrs)},
          now \in Timestamps, rnd \in RandSuffixes :
        LET id == generateId("marker", now, rnd)
            markerMgrs == IF IsSome(mgrsText) THEN Get(mgrsText)
                          ELSE mgrsForward(ll, 5)
        IN  /\ Len(Store) < MaxMarkers \/ HasId(Store, id)
            /\ pending' = IF markerMgrs = MgrsFails THEN pending
                          ELSE addMarker(pending, id, ll[2], ll[1],
                                         markerMgrs, now)
            /\ UNCHANGED <<listed, zones, alerted, hostListens, notified, callbacks, eventLog, markersCountRef>>
            /\ last' = [op |-> "addMarker", hit |-> Arg(id), xy |-> None]
    /\ StoreFrame
    /\ UNCHANGED timers
    /\ UNCHANGED <<captured, receiver>>

\* removeMarker(id) called by a consumer, with any id.
StoreRemoveMarker ==
    /\ Idle
    /\ \E id \in MarkerIds :
        /\ pending' = removeMarker(pending, id)
        /\ UNCHANGED <<listed, zones, alerted, hostListens, notified, callbacks, eventLog, markersCountRef>>
        /\ last' = [op |-> "removeMarker", hit |-> Arg(id), xy |-> None]
    /\ StoreFrame
    /\ UNCHANGED timers
    /\ UNCHANGED <<captured, receiver>>

\* clearMarkers() called by a consumer.
StoreClearMarkers ==
    /\ Idle
    /\ pending' = clearMarkers(pending)
    /\ UNCHANGED <<listed, zones, alerted, hostListens, notified, callbacks, eventLog, markersCountRef>>
    /\ last' = [op |-> "clearMarkers", hit |-> NoHit, xy |-> None]
    /\ StoreFrame
    /\ UNCHANGED timers
    /\ UNCHANGED <<captured, receiver>>

\* getAllMarkers() called by a consumer, at any moment: it keeps the array.
StoreListMarkers ==
    /\ ~crashed
    /\ listed' = getAllMarkers
    /\ UNCHANGED <<zones, alerted, hostListens, notified, callbacks, eventLog, markersCountRef>>
    /\ last' = [op |-> "listMarkers", hit |-> NoHit, xy |-> None]
    /\ UNCHANGED pending
    /\ StoreFrame
    /\ UNCHANGED timers
    /\ UNCHANGED <<captured, receiver>>

\* Store / scene synchronisation: the gestures, the host's commands, the
\* commits of the store and the life cycle of the component.  The camera
\* is left to SpecCamera: a command finds no animation in flight.
Next ==
    \/ Render
    \/ Click
    \/ ContextMenu
    \/ SetVisibility
    \/ RequestClear
    \/ SetGoToAtRest
    \/ Mount
    \/ Unmount

Spec == Init /\ [][Next]_vars

\* The same with a single component instance: it is mounted once, and
\* nothing is mounted after it was unmounted.
MountFirst == phase = "Uninitialized" /\ Mount

NextOneInstance ==
    \/ Render
    \/ Click
    \/ ContextMenu
    \/ SetVisibility
    \/ RequestClear
    \/ SetGoToAtRest
    \/ MountFirst
    \/ Unmount

SpecOneInstance == Init /\ [][NextOneInstance]_vars

\* The camera: navigation commands that overlap, the frames that end their
\* animations, the gestures and the life cycle of the component.
NextCamera ==
    \/ Render
    \/ SetGoTo
    \/ AnimationEnd
    \/ Mount
    \/ Unmount

SpecCamera == Init /\ [][NextCamera]_vars

\* The life cycle: the gestures and the frames of a component that is
\* mounted, unmounted and mounted again.
NextLifecycle ==
    \/ Render
    \/ Click
    \/ ContextMenu
    \/ SetGoToAtRest
    \/ AnimationEnd
    \/ Mount
    \/ Unmount

SpecLifecycle == Init /\ [][NextLifecycle]_vars

\* The input box: the user submits coordinate texts to a mounted component
\* whose camera animates and which is unmounted and mounted again.
NextSubmit ==
    \/ Render
    \/ Submit
    \/ ContextMenu
    \/ AnimationEnd
    \/ Mount
    \/ Unmount

SpecSubmit == Init /\ [][NextSubmit]_vars

\* The callback of the oldest timer runs, 50 ms after its event (React has
\* committed the updaters queued before then): it reads the store and calls
\* onMarkerAdded when it finds the record.
TimerFire ==
    /\ Idle
    /\ timers # <<>>
    /\ notified' = getMarker(Head(timers))
    /\ timers' = Tail(timers)
    /\ last' = [op |-> "timer", hit |-> Arg(Head(timers)), xy |-> None]
    /\ UNCHANGED <<storeVars, phase, crashed, sceneVars, propVars, cameraVars,
                   markersCount, emitted, listed, zones, alerted,
                   hostListens, callbacks, captured, receiver, eventLog, markersCountRef>>

\* ------------------------------------------------------------ event log
EVENT_LOG_SIZE == 10

\* Array.prototype.slice(0, n)
Slice(seq, n) == SubSeq(seq, 1, IF Len(seq) < n THEN Len(seq) ELSE n)

\* A log that takes its new line at the end.
logLine_AtEnd(log, msg) == Slice(log \o <<msg>>, EVENT_LOG_SIZE)

\* setEventLog((prev) => [msg, ...prev].slice(0, 10))
logLine(log, msg) == Slice(<<msg>> \o log, EVENT_LOG_SIZE)

\* The events that handleMapEvent logs as they arrive.
LoggedEvents == {"markerRemoved"}

\* The serial number of the next log line.
NextLine == IF eventLog = <<>> THEN 1 ELSE eventLog[1].line + 1

LogFrame ==
    UNCHANGED <<storeVars, phase, crashed, sceneVars, propVars, cameraVars,
                markersCount, emitted, listed, zones, alerted,
                hostListens, timers, notified, callbacks, captured,
                receiver, markersCountRef>>

\* handleMapEvent receives a markerRemoved, zoneClicked or featureClicked
\* event and logs it.
LogMapEvent ==
    /\ ~crashed
    /\ NextLine <= MaxEvents
    /\ \E type \in LoggedEvents :
        eventLog' = logLine(eventLog, [type |-> type, line |-> NextLine])
    /\ last' = [op |-> "log", hit |-> NoHit, xy |-> None]
    /\ LogFrame

\* The timer of a markerAdded event runs: it logs the marker when getMarker
\* finds it, and nothing otherwise.
LogMarkerAdded ==
    /\ ~crashed
    /\ NextLine <= MaxEvents
    /\ \E found \in BOOLEAN :
        eventLog' = IF found
                    THEN logLine(eventLog, [type |-> "markerAdded",
                                            line |-> NextLine])
                    ELSE eventLog
    /\ last' = [op |-> "logAdded", hit |-> NoHit, xy |-> None]
    /\ LogFrame

\* The event log of the host.
NextLog ==
    \/ LogMapEvent
    \/ LogMarkerAdded

SpecLog == Init /\ [][NextLog]_vars

\* The host re-renders the component with new onMapEvent, onLastClick and
\* onInfo callbacks: no dependency of the initialisation effect changed, so
\* the effect does not run again.
SetCallbacks ==
    /\ Ready
    /\ callbacks' = 1 - callbacks
    /\ last' = [op |-> "setCallbacks", hit |-> NoHit, xy |-> None]
    /\ UNCHANGED <<storeVars, phase, crashed, sceneVars, propVars, cameraVars,
                   markersCount, emitted, listed, zones, alerted,
                   hostListens, timers, notified, captured, receiver,
                   eventLog, markersCountRef>>

\* Gestures and camera moves of a component whose host changes its
\* callbacks.
NextCallbacks ==
    \/ Render
    \/ Click
    \/ ContextMenu
    \/ SetGoToAtRest
    \/ AnimationEnd
    \/ SetCallbacks
    \/ MountFirst

SpecCallbacks == Init /\ [][NextCallbacks]_vars

\* The component under a MapView that listens to its events: gestures, and
\* the timers of the markerAdded events.
NextHost ==
    \/ Render
    \/ Click
    \/ ContextMenu
    \/ TimerFire
    \/ MountFirst

SpecHost == InitHosted /\ [][NextHost]_vars

\* Marker creation on its three paths: a click, a navigation drop and a
\* consumer's addMarker.
NextCreate ==
    \/ Render
    \/ Click
    \/ SetGoToAtRest
    \/ StoreAddMarker
    \/ Mount

SpecCreate == Init /\ [][NextCreate]_vars

\* Seeding: the host changes the seed configuration of a mounted component
\* that takes gestures and is unmounted and mounted again.
NextSeed ==
    \/ Render
    \/ Click
    \/ ContextMenu
    \/ ReSeed
    \/ Mount
    \/ Unmount

SpecSeed == Init /\ [][NextSeed]_vars

\* A further store call of a task that has already queued updaters.
AlsoAddMarker ==
    /\ ~crashed
    /\ pending # <<>>
    /\ Len(pending) < MaxQueue
    /\ \E ll \in LonLats, mgrsText \in {None, Some(TypedMgrs)},
          now \in Timestamps, rnd \in RandSuffixes :
        LET id == generateId("marker", now, rnd)
            markerMgrs == IF IsSome(mgrsText) THEN Get(mgrsText)
                          ELSE mgrsForward(ll, 5)
        IN  /\ markerMgrs # MgrsFails
            /\ pending' = addMarker(pending, id, ll[2], ll[1], markerMgrs, now)
            /\ last' = [op |-> "addMarker", hit |-> Arg(id), xy |-> None,
                        k |-> Len(pending')]
    /\ UNCHANGED <<listed, zones, alerted, hostListens, notified, callbacks, eventLog, markersCountRef, timers>>
    /\ StoreFrame
    /\ UNCHANGED <<captured, receiver>>

AlsoRemoveMarker ==
    /\ ~crashed
    /\ pending # <<>>
    /\ Len(pending) < MaxQueue
    /\ \E id \in MarkerIds :
        /\ pending' = removeMarker(pending, id)
        /\ last' = [op |-> "removeMarker", hit |-> Arg(id), xy |-> None,
                    k |-> Len(pending')]
    /\ UNCHANGED <<listed, zones, alerted, hostListens, notified, callbacks, eventLog, markersCountRef, timers>>
    /\ StoreFrame
    /\ UNCHANGED <<captured, receiver>>

AlsoClearMarkers ==
    /\ ~crashed
    /\ pending # <<>>
    /\ Len(pending) < MaxQueue
    /\ pending' = clearMarkers(pending)
    /\ last' = [op |-> "clearMarkers", hit |-> NoHit, xy |-> None,
                k |-> Len(pending')]
    /\ UNCHANGED <<listed, zones, alerted, hostListens, notified, callbacks, eventLog, markersCountRef, timers>>
    /\ StoreFrame
    /\ UNCHANGED <<captured, receiver>>

\* The store called several times within one task, before React commits.
NextBatch ==
    \/ Render
    \/ StoreAddMarker
    \/ StoreRemoveMarker
    \/ StoreClearMarkers
    \/ AlsoAddMarker
    \/ AlsoRemoveMarker
    \/ AlsoClearMarkers

SpecBatch == Init /\ [][NextBatch]_vars

\* The store alone: a consumer of the context calls its operations.
NextStore ==
    \/ Render
    \/ StoreAddMarker
    \/ StoreRemoveMarker
    \/ StoreClearMarkers
    \/ StoreListMarkers

SpecStore == Init /\ [][NextStore]_vars


\* ------------------------------------------------------------------ claims
\* A step taken by the handler or effect `op` (a commit is not one: it runs
\* with updaters queued).
StepOf(op) == pending = <<>> /\ last'.op = op

NoStoreOrLayerChange == UNCHANGED <<markers, pending, markersSource>>

\* C1: within one component instance the ids of the features of the marker
\* layer are the ids of the markers of the store (the store as of its next
\* commit; with nothing queued, the committed store).
C1_StoreSceneSync ==
    phase = "Active" => IdsOf(markersSource) = IdsOf(Store)

C1_Witness ==
    /\ phase = "Active"
    /\ pending = <<>>
    /\ last.op = "contextmenu"
    /\ CountOf(emitted, "markerRemoved") = 1
    /\ Len(markers) >= 1
    /\ IdsOf(markersSource) = IdsOf(markers)

\* C2: right after addMarker returned id, getMarker(id) returns the record
\* with that id and listMarkers() is one element longer than before.
C2_ReadAfterAdd ==
    [][\A i \in 1 .. Len(pending') :
          (i > Len(pending) /\ pending'[i].op = "add") =>
             LET id == pending'[i].rec.id
                 read == MapGet(markers', id)   \* getMarker(id) after the call
             IN  /\ IsSome(read)
                 /\ Get(read).id = id
                 /\ Len(getAllMarkers') = Len(getAllMarkers) + 1]_vars

\* C3: the id addMarker returns is new; stated for the ids of the markers
\* the store holds when addMarker is called.
C3_FreshId ==
    [][\A i \in 1 .. Len(pending') :
          (i > Len(pending) /\ pending'[i].op = "add") =>
             pending'[i].rec.id \notin IdsOf(Store)]_vars

\* C4: after a fresh component was mounted on the same store, the ids of its
\* marker features are the ids of the markers of the store.
C4_RecreationSync ==
    (phase = "Active" /\ last.op = "mount") =>
        IdsOf(markersSource) = IdsOf(Store)

\* C5: a primary click creates a marker exactly when no feature was hit and
\* the marker layer is visible, and then adds one record, one feature with
\* the same id and one MarkerAdded event.
C5_ClickCreatesIff ==
    [][StepOf("click") =>
          LET created == CountOf(emitted', "markerAdded") > 0
                         \/ Store' # Store
                         \/ markersSource' # markersSource
          IN  /\ created <=> (last'.hit = NoHit /\ visible.markers)
              /\ created =>
                    /\ CountOf(emitted', "markerAdded") = 1
                    /\ Len(Store') = Len(Store) + 1
                    /\ Len(markersSource') = Len(markersSource) + 1
                    /\ \A i \in 1 .. Len(emitted') :
                         emitted'[i].type = "markerAdded" =>
                            /\ emitted'[i].id \in IdsOf(Store') \ IdsOf(Store)
                            /\ emitted'[i].id \in
                                 IdsOf(markersSource') \ IdsOf(markersSource)]_vars

\* C6: a primary click on a zone emits one ZoneClicked and one FeatureClicked
\* for that zone and no MarkerAdded, and changes neither store nor marker
\* layer; a primary click on a marker emits one FeatureClicked and creates
\* no marker either.
C6_FeatureHitCreatesNothing ==
    [][(StepOf("click") /\ last'.hit.type \in {"zone", "marker"}) =>
          /\ NoStoreOrLayerChange
          /\ CountOf(emitted', "markerAdded") = 0
          /\ CountOf(emitted', "featureClicked") = 1
          /\ \A i \in 1 .. Len(emitted') : emitted'[i].id = last'.hit.id
          /\ CountOf(emitted', "zoneClicked") =
                IF last'.hit.type = "zone" THEN 1 ELSE 0]_vars

C6_Witness ==
    /\ last.op = "click"
    /\ last.hit.type = "zone"
    /\ visible.markers
    /\ CountOf(emitted, "zoneClicked") = 1
    /\ CountOf(emitted, "featureClicked") = 1
    /\ markersSource # <<>>

\* C7: a secondary click on marker m with the marker layer visible removes
\* m's record and m's feature and nothing else, leaves no popup open and
\* emits one MarkerRemoved carrying m's id.
C7_SecondaryClickRemoves ==
    /\ [][(StepOf("contextmenu") /\ last'.hit.type = "marker"
           /\ visible.markers) =>
             LET m == last'.hit.id
             IN  /\ HasId(Store, m) /\ ~HasId(Store', m)
                 /\ Store' = Without(Store, m)
                 /\ HasId(markersSource, m) /\ ~HasId(markersSource', m)
                 /\ markersSource' = Without(markersSource, m)
                 /\ popup'.kind = "none"
                 /\ Len(emitted') = 1
                 /\ emitted'[1].type = "markerRemoved"
                 /\ emitted'[1].id = m]_vars
    /\ []((last.op = "contextmenu" /\ last.hit.type = "marker"
           /\ pending = <<>>) => ~HasId(markers, last.hit.id))

C7_Witness ==
    /\ last.op = "contextmenu"
    /\ last.hit.type = "marker"
    /\ pending = <<>>
    /\ CountOf(emitted, "markerRemoved") = 1
    /\ Len(markers) >= 1
    /\ Len(markersSource) >= 1
    /\ ~HasId(markers, last.hit.id)

\* C8: a secondary click that hits no feature, a zone or a heat point
\* changes neither store, marker layer nor popup and emits no event.
C8_SecondaryClickNoOp ==
    [][(StepOf("contextmenu") /\ last'.hit.type # "marker") =>
          /\ NoStoreOrLayerChange
          /\ UNCHANGED popup
          /\ emitted' = <<>>]_vars

C8_Witness ==
    /\ last.op = "contextmenu"
    /\ last.hit.type = "zone"
    /\ visible.markers
    /\ markersSource # <<>>
    /\ popup.kind = "marker"

\* C9: a visibility toggle changes neither store nor marker features, and
\* while the marker layer is hidden no click of either kind creates or
\* deletes a marker.
C9_HiddenLayerFrozen ==
    [][/\ StepOf("setVisible") => NoStoreOrLayerChange
       /\ (pending = <<>> /\ ~visible.markers
           /\ last'.op \in {"click", "contextmenu"}) =>
             /\ NoStoreOrLayerChange
             /\ CountOf(emitted', "markerAdded") = 0
             /\ CountOf(emitted', "markerRemoved") = 0]_vars

C9_Witness ==
    /\ last.op = "contextmenu"
    /\ ~visible.markers
    /\ pending = <<>>
    /\ \E i \in 1 .. Len(markersSource) :
          /\ fromLonLat(markersSource[i].lonLat) = Get(last.xy)
          /\ HasId(markers, markersSource[i].id)

Queued ==
    IF Len(pending') > Len(pending)
    THEN SubSeq(pending', Len(pending) + 1, Len(pending'))
    ELSE <<>>

QueuedOps(op) == {i \in 1 .. Len(Queued) : Queued[i].op = op}

\* C11: the bulk clear is edge-triggered: a step that leaves the clear
\* trigger as it was (the mount of a component among them) clears nothing of
\* a store that holds markers.
C11_ClearEdgeTriggered ==
    [][(requestClearMarkers' = requestClearMarkers /\ Store # <<>>) =>
          QueuedOps("clear") = {}]_vars

\* C12: a navigation command runs once: the mount of a component whose
\* goToRequest prop still holds the command that ran before starts no
\* animation and adds no marker; and every command that drops a marker adds
\* one under an id no marker of the store has.
C12_CommandRunsOnce ==
    [][/\ (StepOf("mount") /\ IsSome(goToRequest)) =>
             /\ anim' = <<>>
             /\ QueuedOps("add") = {}
             /\ CountOf(emitted', "markerAdded") = 0
       /\ StepOf("goTo") =>
             \A i \in QueuedOps("add") :
                 /\ Queued[i].rec.id \notin IdsOf(Store)
                 /\ Len(Store') = Len(Store) + 1]_vars

\* C13: a navigation command that runs starts an animation to its lat/lon
\* at its zoom (15 when it gives none); it adds a marker exactly when
\* dropMarker is set and the marker layer is visible, and then one record,
\* one feature with the same id and one MarkerAdded, the record carrying the
\* command's grid reference, or the 5-digit one of (lon, lat) without it.
C13_GoToRuns ==
    [][(StepOf("goTo") /\ IsSome(goToRequest')) =>
          LET r == Get(goToRequest')
              lonLat == <<r.lon, r.lat>>
              created == \/ QueuedOps("add") # {}
                         \/ markersSource' # markersSource
                         \/ CountOf(emitted', "markerAdded") > 0
          IN  /\ anim' = Append(anim, [center |-> fromLonLat(lonLat),
                                       zoom |-> IF IsSome(r.zoom)
                                                THEN Get(r.zoom) ELSE 15])
              /\ created <=> (r.dropMarker /\ visible.markers)
              /\ created =>
                    /\ Cardinality(QueuedOps("add")) = 1
                    /\ Len(Store') = Len(Store) + 1
                    /\ Len(markersSource') = Len(markersSource) + 1
                    /\ CountOf(emitted', "markerAdded") = 1
                    /\ \A i \in QueuedOps("add") :
                         /\ Queued[i].rec.id \in
                               IdsOf(markersSource') \ IdsOf(markersSource)
                         /\ \A k \in 1 .. Len(emitted') :
                               emitted'[k].id = Queued[i].rec.id
                         /\ Queued[i].rec.mgrs =
                               IF IsSome(r.mgrs) THEN Get(r.mgrs)
                               ELSE mgrsForward(lonLat, 5)]_vars

C15_ListOrderSnapshot ==
    [][/\ last'.op = "listMarkers" => listed' = Store
       /\ StepOf("addMarker") =>
             \A i \in QueuedOps("add") :
                 Store'[Len(Store')] = Queued[i].rec
       /\ last'.op # "listMarkers" => listed' = listed]_vars

\* C16: every mutating store call publishes a snapshot of its own,
\* synchronously: when the step that made the call ends, the markers the
\* subscribers read are those the call produced, and a commit never
\* publishes the result of more than one call at once (no subscriber misses
\* an intermediate collection).
C16_SnapshotPerMutation ==
    [][/\ Queued # <<>> => markers' = Store'
       /\ (pending # <<>> /\ pending' = <<>>) => Len(pending) = 1]_vars

\* C17: the onMapEvent listener receives every event of a step once, in
\* that step: one MarkerAdded per marker the step adds and one MarkerRemoved
\* per marker it removes, carrying its id, one FeatureClicked per click that
\* hit a feature and one ZoneClicked per click that hit a zone, and nothing
\* else: no event twice, none of an earlier step again.
C17_EventsOnce ==
    [][pending = <<>> =>
          /\ CountOf(emitted', "markerAdded") = Cardinality(QueuedOps("add"))
          /\ CountOf(emitted', "markerRemoved") = Cardinality(QueuedOps("del"))
          /\ CountOf(emitted', "featureClicked") =
                IF last'.op = "click" /\ last'.hit # NoHit THEN 1 ELSE 0
          /\ CountOf(emitted', "zoneClicked") =
                IF last'.op = "click" /\ last'.hit.type = "zone" THEN 1 ELSE 0
          /\ Len(emitted') =
                CountOf(emitted', "markerAdded")
                + CountOf(emitted', "markerRemoved")
                + CountOf(emitted', "featureClicked")
                + CountOf(emitted', "zoneClicked")
          /\ \A k \in 1 .. Len(emitted') :
                CASE emitted'[k].type = "markerAdded" ->
                        \E i \in QueuedOps("add") :
                            Queued[i].rec.id = emitted'[k].id
                  [] emitted'[k].type = "markerRemoved" ->
                        \E i \in QueuedOps("del") :
                            Queued[i].id = emitted'[k].id
                  [] OTHER -> emitted'[k].id = last'.hit.id]_vars

C17_Witness ==
    /\ last.op = "click"
    /\ last.hit.type = "heat"
    /\ pending # <<>>
    /\ Len(emitted) = 2
    /\ CountOf(emitted, "featureClicked") = 1
    /\ CountOf(emitted, "markerAdded") = 1

\* C18: a component moves only from Uninitialized to Active and from Active
\* to Disposed (after that only a fresh instance is mounted), and while it
\* is Disposed no click, context-menu or move-end handler runs: nothing
\* reaches the store, onInfo, onLastClick or onMapEvent.
C18_DisposedIsSilent ==
    [][/\ phase' # phase =>
             \/ phase = "Uninitialized" /\ phase' = "Active"
             \/ phase = "Active" /\ phase' = "Disposed"
             \/ phase = "Disposed" /\ phase' = "Active" /\ last'.op = "mount"
       /\ (phase = "Disposed" /\ last'.op # "mount") =>
             /\ last'.op \notin {"click", "contextmenu", "moveend", "frame"}
             /\ UNCHANGED <<markers, pending, info, emitted>>
             /\ last'.xy = None]_vars

C18_Witness ==
    /\ phase = "Disposed"
    /\ ~crashed
    /\ last.op = "unmount"
    /\ anim # <<>>
    /\ markersSource # <<>>
    /\ visible.markers

\* C19: when a component is disposed with a camera animation in flight the
\* animation is stopped (none is left running), and afterwards no frame of
\* it and no gesture reaches the disposed component.
C19_DisposeStopsAnimation ==
    /\ [](phase = "Disposed" => anim = <<>>)
    /\ [][(phase = "Disposed" /\ last'.op # "mount") =>
             /\ last'.op \notin {"click", "contextmenu", "moveend", "frame"}
             /\ UNCHANGED <<view, info>>]_vars

\* C20: a navigation command issued with an animation in flight replaces
\* it: the new animation is the only one left in flight, and from then on
\* the camera moves to the target of the latest command only, never to the
\* target of the command it replaced.
C20_CommandRetargets ==
    [][/\ (StepOf("goTo") /\ IsSome(goToRequest') /\ ~crashed') =>
             Len(anim') = 1
       /\ (Len(anim) > 1 /\ last'.op \in {"frame", "moveend"}
           /\ view' # view) =>
             view' = anim[Len(anim)]]_vars

\* The zoom and the centre, as (lat, lon), of the live camera.
LiveCamera ==
    LET c == toLonLat(view.center)
    IN  [zoom |-> view.zoom, centerLatLon |-> <<c[2], c[1]>>]

\* C21: at the initialisation and at every completion of a camera move of
\* an Active component the ViewState handed to onInfo is the zoom and the
\* centre (lat, lon) of the live camera, so with no move in flight the last
\* ViewState reported is the live camera state.
C21_InfoIsLiveCamera ==
    /\ []((phase = "Active" /\ anim = <<>>) => info = LiveCamera)
    /\ [][(phase' = "Active" /\ last'.op \in {"mount", "moveend"}) =>
             info' = LiveCamera']_vars

C21_Witness ==
    /\ phase = "Active"
    /\ last.op = "moveend"
    /\ anim = <<>>
    /\ view # InitialView
    /\ info.zoom = view.zoom
    /\ info.centerLatLon[1] # DEFAULT_CENTER[2]

\* C22: zones and heat points live and die with an initialisation: whatever
\* initialisations and tear-downs came before (a re-initialisation with
\* another seed configuration among them), the zone layer and the heat layer
\* of the Active component hold exactly the features of the current seed
\* configuration, none twice and none of an earlier initialisation.
C22_SeededOncePerInit ==
    phase = "Active" =>
        /\ zonesSource = ZoneFeatures(seedZones)
        /\ heatSource = HeatFeatures


\* C23: the store owns the zones: once the component is Active every seeded
\* zone feature's id is in the store (getZone(id) returns its record and
\* getAllZones() lists it), and no step -- addMarker, removeMarker and
\* clearMarkers among them -- changes the store's zones.
C23_StoreOwnsZones ==
    /\ [](phase = "Active" =>
            \A i \in 1 .. Len(zonesSource) :
                /\ IsSome(getZone(zonesSource[i].id))
                /\ \E j \in 1 .. Len(getAllZones) :
                       getAllZones[j].id = zonesSource[i].id)
    /\ [][zones' = zones]_vars


\* C24: the marker count the host holds is live: when the component is
\* Active and every queued store mutation is committed, the last value
\* handed to onMarkersCount is the number of markers in the store.
C24_CountIsLive ==
    (phase = "Active" /\ pending = <<>>) => markersCount = Len(markers)

C24_Witness ==
    /\ phase = "Active"
    /\ pending = <<>>
    /\ last.op = "contextmenu"
    /\ last.hit.type = "marker"
    /\ ~HasId(markers, last.hit.id)
    /\ Len(markers) = 1
    /\ markersCount = 1


\* C25: the three visibility flags are independent and idempotent: a step
\* that applies a flag gives one layer the value of its flag and leaves the
\* visibility of the other two layers, the store, the features of the three
\* layers and the popup as they were; applying the value a flag already has
\* changes no visibility at all.
C25_VisibilityIndependent ==
    [][StepOf("setVisible") =>
        /\ \E layer \in Layers :
              /\ visible'[layer] = show'[layer]
              /\ \A other \in Layers \ {layer} :
                     /\ visible'[other] = visible[other]
                     /\ show'[other] = show[other]
        /\ UNCHANGED <<markers, pending, zones, markersSource, zonesSource,
                       heatSource, popup>>
        /\ show' = show => visible' = visible]_vars

C25_Witness ==
    /\ last.op = "setVisible"
    /\ visible = [zones |-> FALSE, markers |-> TRUE, heat |-> TRUE]
    /\ popup # PopupClosed
    /\ Len(markers) >= 1
    /\ Len(markersSource) >= 1


\* The texts C26 counts as valid: a decodable grid reference, or two finite
\* numbers with |lat| <= 90 and |lon| <= 180; and the point each stands for.
IsGridRefText(t) == t.letters /\ IsSome(t.point)

IsLatLonText(t) ==
    /\ ~t.letters
    /\ Len(t.parts) >= 2
    /\ t.parts[1].finite /\ t.parts[2].finite
    /\ Abs(t.parts[1].val) <= 90
    /\ Abs(t.parts[2].val) <= 180

LatLonOfText(t) ==
    IF t.letters THEN <<Get(t.point)[2], Get(t.point)[1]>>
    ELSE <<t.parts[1].val, t.parts[2].val>>

\* A submit of text t issued the command to its point, or refused it with
\* an alert and left command, store and marker layer alone.
SubmitIssued(t) ==
    /\ alerted' = None
    /\ IsSome(goToRequest')
    /\ <<Get(goToRequest').lat, Get(goToRequest').lon>> = LatLonOfText(t)
    /\ Get(goToRequest').zoom = Some(15)
    /\ Get(goToRequest').dropMarker

SubmitRefused ==
    /\ IsSome(alerted')
    /\ ~crashed'
    /\ UNCHANGED <<goToRequest, markers, pending, markersSource>>

\* C26 as stated: a submit issues a navigation command (zoom 15,
\* dropMarker = true, to the parsed point) exactly when the text is a
\* decodable grid reference or two finite numbers in range; every other
\* text gets a validation error and changes nothing.
C26_SubmitAsStated ==
    [][StepOf("submit") =>
        IF IsGridRefText(last'.text) \/ IsLatLonText(last'.text)
        THEN SubmitIssued(last'.text)
        ELSE SubmitRefused]_vars

\* C26 (amended): a submit issues the command exactly when the text is a
\* decodable grid reference or two finite numbers in range whose latitude
\* lies inside the latitude band of the grid system; every other text
\* (numbers outside the band among them) gets a validation error, throws
\* nothing and leaves the pending command, the store and the marker layer
\* unchanged.
C26_SubmitValidates ==
    [][StepOf("submit") =>
        IF \/ IsGridRefText(last'.text)
           \/ IsLatLonText(last'.text) /\ last'.text.parts[1].val \in MgrsBand
        THEN SubmitIssued(last'.text)
        ELSE SubmitRefused]_vars

C26_Witness ==
    /\ last.op = "submit"
    /\ last.text.trimmed = "85, -84"
    /\ alerted = Some("mgrs.forward")
    /\ ~crashed
    /\ IsSome(goToRequest)
    /\ Get(goToRequest).mgrs = Some(TypedMgrs)
    /\ Len(markersSource) >= 1


\* C27: a marker whose grid reference cannot be encoded is not created at
\* all: a click outside the latitude band of the grid system, and a
\* navigation drop there without a supplied grid reference, leave the store
\* and the marker layer as they were and emit no MarkerAdded; an addMarker
\* queues a record only with a supplied grid reference or a latitude inside
\* the band.
C27_NoHalfCreatedMarker ==
    [][/\ (/\ StepOf("click")
           /\ toLonLat(Get(last'.xy))[2] \notin MgrsBand) =>
              /\ NoStoreOrLayerChange
              /\ CountOf(emitted', "markerAdded") = 0
       /\ (/\ StepOf("goTo")
           /\ IsSome(goToRequest')
           /\ Get(goToRequest').dropMarker
           /\ Get(goToRequest').mgrs = None
           /\ Get(goToRequest').lat \notin MgrsBand) =>
              /\ NoStoreOrLayerChange
              /\ CountOf(emitted', "markerAdded") = 0
       /\ (StepOf("addMarker") /\ pending' # pending) =>
              /\ pending'[Len(pending')].op = "add"
              /\ \/ pending'[Len(pending')].rec.mgrs = TypedMgrs
                 \/ pending'[Len(pending')].rec.lat \in MgrsBand
              /\ pending'[Len(pending')].rec.mgrs # MgrsFails
              /\ UNCHANGED <<markersSource, emitted>>]_vars

C27_Witness ==
    /\ last.op = "goTo"
    /\ IsSome(goToRequest)
    /\ Get(goToRequest).dropMarker
    /\ Get(goToRequest).mgrs = None
    /\ Get(goToRequest).lat \notin MgrsBand
    /\ visible.markers
    /\ Len(Store) >= 1
    /\ IdsOf(markersSource) = IdsOf(Store)
    /\ emitted = <<>>


\* C29: every MarkerAdded event reaches onMarkerAdded: when the timer of an
\* event has run, onMarkerAdded was invoked with the record whose id is the
\* event's markerId, whatever happened between the event and the timer.
C29_TimerFindsRecord ==
    [][StepOf("timer") =>
        /\ IsSome(notified')
        /\ Get(notified').id = Head(timers)]_vars


\* C30: the popup follows the selection: after a primary click that hit a
\* marker or a zone the popup is open at the click point and shows that
\* feature; after a primary click that hit neither a marker nor a zone no
\* popup is open.
C30_PopupFollowsSelection ==
    [][StepOf("click") =>
        IF last'.hit.type \in {"marker", "zone"}
        THEN /\ popup'.kind = last'.hit.type
             /\ popup'.id = last'.hit.id
             /\ popup'.at = Get(last'.xy)
        ELSE popup' = PopupClosed]_vars


\* What C31 asks of one MarkerAdded and of one MarkerRemoved event of a step.
AddedConsistent(e) ==
    /\ pending' # <<>>
    /\ pending'[Len(pending')].op = "add"
    /\ pending'[Len(pending')].rec.id = e.id
    /\ <<pending'[Len(pending')].rec.lat,
         pending'[Len(pending')].rec.lon>> = e.coordinates
    /\ last'.op # "mount" => ~HasId(markersSource, e.id)
    /\ \E i \in 1 .. Len(markersSource') :
          /\ markersSource'[i].id = e.id
          /\ <<markersSource'[i].lonLat[2],
               markersSource'[i].lonLat[1]>> = e.coordinates

RemovedConsistent(e) ==
    /\ e.id = last'.hit.id
    /\ e.coordinates = <<last'.hit.lonLat[2], last'.hit.lonLat[1]>>
    /\ HasId(markersSource, e.id)
    /\ ~HasId(markersSource', e.id)

\* C31: every MarkerAdded event carries the id addMarker returned, which is
\* the id of the feature the step added, and the (lat, lon) of the record
\* and of the feature; every MarkerRemoved event carries the id and the
\* coordinates of the feature the step removed.
C31_EventsMatchStoreAndScene ==
    [][(pending = <<>> /\ last'.op \in {"click", "goTo", "mount", "contextmenu"}) =>
        \A i \in 1 .. Len(emitted') :
            /\ emitted'[i].type = "markerAdded" => AddedConsistent(emitted'[i])
            /\ emitted'[i].type = "markerRemoved" =>
                   RemovedConsistent(emitted'[i])]_vars


\* The calls of a task applied one after the other, in call order.
RECURSIVE InCallOrder(_, _)
InCallOrder(m, calls) ==
    IF calls = <<>> THEN m
    ELSE InCallOrder(CASE Head(calls).op = "add" -> MapSet(m, Head(calls).rec)
                       [] Head(calls).op = "del" -> Without(m, Head(calls).id)
                       [] Head(calls).op = "clear" -> <<>>,
                     Tail(calls))

\* C32: the store calls of one task are neither lost nor reordered: until
\* the commit every further call is queued behind the earlier ones, and the
\* commit leaves the collection that applying the calls in call order to
\* the committed collection gives.
C32_CallsCommitInOrder ==
    [][/\ (pending # <<>> /\ pending' # <<>>) =>
              /\ Len(pending') = Len(pending) + 1
              /\ SubSeq(pending', 1, Len(pending)) = pending
       /\ (pending # <<>> /\ pending' = <<>>) =>
              markers' = InCallOrder(markers, pending)]_vars

C32_Witness ==
    /\ pending = <<>>
    /\ last.op = "addMarker"
    /\ "k" \in DOMAIN last
    /\ last.k = 3
    /\ Len(markers) = 1
    /\ markers[1].id = last.hit.id


\* C33: a popup that shows a marker is open only while the marker exists:
\* its record is in the store (committed, and after the queued updaters)
\* and its feature is on the marker layer; a secondary click on the marker
\* and a bulk clear close the popup with the removal.
C33_PopupMarkerExists ==
    popup.kind = "marker" =>
        /\ HasId(markers, popup.id)
        /\ HasId(Store, popup.id)
        /\ HasId(markersSource, popup.id)

C33_Witness ==
    /\ popup.kind = "marker"
    /\ popup.fromStore
    /\ last.op = "click"
    /\ last.hit.type = "marker"
    /\ last.hit.id = popup.id
    /\ Len(markers) = 2
    /\ IsSome(requestClearMarkers)


\* C34: the handlers installed by the initialisation deliver to the host's
\* current callbacks: every click, every context-menu removal and every
\* move-end is notified to the callbacks the host supplied last.
C34_HandlersUseCurrentCallbacks ==
    [][(\/ StepOf("click")
        \/ StepOf("contextmenu") /\ emitted' # <<>>
        \/ StepOf("moveend")) =>
           receiver' = Some(callbacks')]_vars


\* C35: the event log holds at most 10 lines, newest first: every logged
\* event goes to the front, the lines behind it keep their order, and the
\* lines after the tenth are dropped.
C35_EventLogBounded ==
    /\ [](/\ Len(eventLog) <= EVENT_LOG_SIZE
          /\ \A i \in 1 .. Len(eventLog) - 1 :
                eventLog[i].line > eventLog[i + 1].line)
    /\ [][eventLog' # eventLog =>
            /\ eventLog' # <<>>
            /\ eventLog'[1].line = NextLine
            /\ \A i \in 2 .. Len(eventLog') : eventLog'[i] = eventLog[i - 1]
            /\ Len(eventLog') = IF Len(eventLog) < EVENT_LOG_SIZE
                                THEN Len(eventLog) + 1
                                ELSE EVENT_LOG_SIZE]_vars

C35_Witness ==
    /\ last.op = "logAdded"
    /\ Len(eventLog) = EVENT_LOG_SIZE
    /\ eventLog[1].type = "markerAdded"
    /\ eventLog[1].line = 12
    /\ eventLog[EVENT_LOG_SIZE].line = 3



\* --------------------------------------- the map component without a store
\* src/openlayers-test/src/OpenLayersTest.tsx keeps no store: its markers
\* are the features of the marker source, counted in markersCountRef, and
\* the count is handed to onMarkersCount (markersCount is the number the
\* host received last).  Its features carry no id.
PlainFeature(type, name, lonLat) ==
    [type |-> type, name |-> name, lonLat |-> lonLat]

PlainZoneFeatures(cfg) ==
    LET zs == IF IsSome(cfg) THEN Get(cfg) ELSE DefaultZones
    IN  [i \in 1 .. Len(zs) |-> PlainFeature("zone", zs[i].name, zs[i].at)]

PlainHeatFeatures ==
    [i \in 1 .. Len(DefaultHeatPoints) |->
        PlainFeature("heat", DefaultHeatPoints[i].name,
                     <<DefaultHeatPoints[i].lon, DefaultHeatPoints[i].lat>>)]

\* VectorSource.removeFeature of one feature object: the others stay, a
\* feature with the same properties included.
RECURSIVE removeOne(_, _)
removeOne(src, f) ==
    IF src = <<>> THEN <<>>
    ELSE IF Head(src) = f THEN Tail(src)
    ELSE <<Head(src)>> \o removeOne(Tail(src), f)

\* Math.max
MathMax(a, b) == IF a >= b THEN a ELSE b

\* A clear-markers effect that empties the layer and keeps the counter.
plainClearEffect_KeepsCount(token, src, cnt, rep, pop) ==
    IF token = None
    THEN [src |-> src, cnt |-> cnt, rep |-> rep, popup |-> pop]
    ELSE [src |-> <<>>, cnt |-> cnt, rep |-> cnt, popup |-> PopupClosed]

\* The clear-markers effect: nothing for a null token; otherwise the source
\* is cleared, the counter reset and reported, and the popup hidden.
plainClearEffect(token, src, cnt, rep, pop) ==
    IF token = None
    THEN [src |-> src, cnt |-> cnt, rep |-> rep, popup |-> pop]
    ELSE [src |-> <<>>, cnt |-> 0, rep |-> 0, popup |-> PopupClosed]

\* The goToRequest effect: the view is animated, and a marker is dropped,
\* counted and reported when asked for and the marker layer is visible.
plainGoToEffect(r, src, cnt, rep, vis) ==
    LET zoom == IF IsSome(r.zoom) THEN Get(r.zoom) ELSE GOTO_DEFAULT_ZOOM
        coord == fromLonLat(<<r.lon, r.lat>>)
        target == <<[center |-> coord, zoom |-> zoom]>>
        marker == [type |-> "marker", name |-> "Marker",
                   lonLat |-> <<r.lon, r.lat>>, mgrs |-> r.mgrs]
    IN  IF r.dropMarker /\ getVisible(vis, "markers")
        THEN [anim |-> target, src |-> Append(src, marker),
              cnt |-> cnt + 1, rep |-> cnt + 1]
        ELSE [anim |-> target, src |-> src, cnt |-> cnt, rep |-> rep]

\* What the store-less component never touches.
PlainFrame ==
    UNCHANGED <<storeVars, crashed, seedZones, emitted, listed, zones,
                alerted, hostListens, timers, notified, callbacks,
                captured, receiver, eventLog>>

\* clickHandler (singleclick): a marker or zone under the pointer gets the
\* popup; anything else drops a marker when the marker layer is visible.
plainClickHandler(xy, clickedFeature) ==
    LET lonLat == toLonLat(xy)
        hitAny == clickedFeature # NoHit
    IN
    /\ last' = [op |-> "click", hit |-> clickedFeature, xy |-> Some(xy)]
    /\ UNCHANGED <<phase, zonesSource, heatSource, visible, propVars,
                   cameraVars>>
    /\ IF hitAny /\ clickedFeature.type = "marker"
       THEN /\ popup' = [kind |-> "marker", at |-> xy]
            /\ UNCHANGED <<markersSource, markersCountRef, markersCount>>
       ELSE IF hitAny /\ clickedFeature.type = "zone"
       THEN /\ popup' = [kind |-> "zone", at |-> xy]
            /\ UNCHANGED <<markersSource, markersCountRef, markersCount>>
       ELSE /\ popup' = IF hitAny THEN popup ELSE PopupClosed
            /\ IF ~getVisible(visible, "markers")
               THEN UNCHANGED <<markersSource, markersCountRef, markersCount>>
               ELSE /\ Len(markersSource) < MaxMarkers
                    /\ markersSource' =
                          Append(markersSource,
                                 PlainFeature("marker", "Marker", lonLat))
                    /\ markersCountRef' = markersCountRef + 1
                    /\ markersCount' = markersCountRef'

PlainClick ==
    /\ Ready
    /\ \E xy \in Projected :
         \E hit \in HitCandidates(xy) : plainClickHandler(xy, hit)
    /\ PlainFrame

\* contextMenuHandler (right click): a marker under the pointer is removed
\* from the visible marker layer, the counter decremented and reported.
plainContextMenuHandler(xy, clickedFeature) ==
    /\ last' = [op |-> "contextmenu", hit |-> clickedFeature, xy |-> Some(xy)]
    /\ UNCHANGED <<phase, zonesSource, heatSource, visible, propVars,
                   cameraVars>>
    /\ IF \/ ~getVisible(visible, "markers")
          \/ clickedFeature = NoHit
          \/ clickedFeature.type # "marker"
       THEN UNCHANGED <<markersSource, markersCountRef, markersCount, popup>>
       ELSE /\ markersSource' = removeOne(markersSource, clickedFeature)
            /\ markersCountRef' = MathMax(0, markersCountRef - 1)
            /\ markersCount' = markersCountRef'
            /\ popup' = PopupClosed

PlainContextMenu ==
    /\ Ready
    /\ \E xy \in Projected :
         \E hit \in HitCandidates(xy) : plainContextMenuHandler(xy, hit)
    /\ PlainFrame

\* The host passes another requestClearMarkers token: the clear effect runs.
PlainRequestClear ==
    /\ Ready
    /\ \E token \in ClearTokens :
        /\ token # requestClearMarkers
        /\ requestClearMarkers' = token
        /\ LET res == plainClearEffect(token, markersSource, markersCountRef,
                                       markersCount, popup)
           IN  /\ markersSource' = res.src
               /\ markersCountRef' = res.cnt
               /\ markersCount' = res.rep
               /\ popup' = res.popup
    /\ last' = [op |-> "clear", hit |-> NoHit, xy |-> None]
    /\ UNCHANGED <<phase, zonesSource, heatSource, visible, show,
                   goToRequest, cameraVars>>
    /\ PlainFrame

\* The host passes another goToRequest object (or null): the goToRequest
\* effect runs.
PlainSetGoTo ==
    /\ Ready
    /\ \E req \in {None} \cup {Some(r) : r \in GoToRequests} :
        /\ goToRequest' = req
        /\ IF req = None
           THEN UNCHANGED <<markersSource, markersCountRef, markersCount,
                            anim>>
           ELSE LET go == plainGoToEffect(Get(req), markersSource,
                                          markersCountRef, markersCount,
                                          visible)
                IN  /\ Len(anim) < MaxAnims
                    /\ Len(go.src) <= MaxMarkers
                    /\ anim' = anim \o go.anim
                    /\ markersSource' = go.src
                    /\ markersCountRef' = go.cnt
                    /\ markersCount' = go.rep
    /\ last' = [op |-> "goTo", hit |-> NoHit, xy |-> None]
    /\ UNCHANGED <<phase, zonesSource, heatSource, visible, show,
                   requestClearMarkers, popup, view, info>>
    /\ PlainFrame

\* The initialisation effect followed by the clear and goToRequest effects,
\* on the sources and the counter the component instance holds: a new map,
\* view and popup, the zones and heat points added to their sources.
plainInit(zsrc, hsrc, msrc, cnt, rep) ==
    LET clr == plainClearEffect(requestClearMarkers, msrc, cnt, rep,
                                PopupClosed)
        go == IF goToRequest = None
              THEN [anim |-> <<>>, src |-> clr.src, cnt |-> clr.cnt,
                    rep |-> clr.rep]
              ELSE plainGoToEffect(Get(goToRequest), clr.src, clr.cnt,
                                   clr.rep, show)
    IN  /\ Len(go.src) <= MaxMarkers
        /\ zonesSource' = zsrc \o PlainZoneFeatures(seedZones)
        /\ heatSource' = hsrc \o PlainHeatFeatures
        /\ view' = InitialView
        /\ info' = updateInfo(InitialView)
        /\ visible' = show
        /\ popup' = PopupClosed
        /\ anim' = go.anim
        /\ markersSource' = go.src
        /\ markersCountRef' = go.cnt
        /\ markersCount' = go.rep
        /\ phase' = "Active"
        /\ UNCHANGED propVars

\* A fresh component instance is mounted: new sources, a counter at 0.
PlainMount ==
    /\ Idle
    /\ phase \in {"Uninitialized", "Disposed"}
    /\ plainInit(<<>>, <<>>, <<>>, 0, markersCount)
    /\ last' = [op |-> "mount", hit |-> NoHit, xy |-> None]
    /\ PlainFrame

\* The host re-renders a mounted component with another onMarkersCount
\* function: the initialisation, clear and goToRequest effects all list it
\* in their dependencies and run again on the same sources and counter.
PlainSetCallback ==
    /\ Ready
    /\ Len(zonesSource) < MaxMarkers
    /\ plainInit(zonesSource, heatSource, markersSource, markersCountRef,
                 markersCount)
    /\ last' = [op |-> "setCallback", hit |-> NoHit, xy |-> None]
    /\ PlainFrame

\* A navigation command that arrives when no animation is in flight.
PlainSetGoToAtRest == anim = <<>> /\ PlainSetGoTo

\* The store-less component under gestures and host commands.
NextPlain ==
    \/ PlainClick
    \/ PlainContextMenu
    \/ PlainRequestClear
    \/ PlainSetGoToAtRest
    \/ PlainSetCallback
    \/ PlainMount
    \/ SetVisibility
    \/ Unmount

SpecPlain == Init /\ [][NextPlain]_vars


\* C36: in the component without a store, after every click that creates a
\* marker, right-click that deletes one, bulk clear and navigation drop the
\* number last handed to onMarkersCount is the number of features in the
\* marker layer; the counter is never negative and always that number.
\* (A fresh instance starts with an empty layer and reports nothing until
\* its first such operation.)
C36_CountMatchesLayer ==
    /\ [](markersCountRef >= 0 /\ markersCountRef = Len(markersSource))
    /\ [][(/\ phase = "Active"
           /\ \/ markersSource' # markersSource
              \/ last'.op = "clear" /\ requestClearMarkers' # None) =>
              /\ markersCount' = Len(markersSource')
              /\ markersCount' >= 0]_vars

C36_Witness ==
    /\ last.op = "contextmenu"
    /\ last.hit.type = "marker"
    /\ Len(markersSource) = 1
    /\ markersCount = 1
    /\ IsSome(requestClearMarkers)
    /\ goToRequest # None

====
